---------------------------- MODULE Spec2Model ----------------------------
(***************************************************************************)
(* Model of the Shopify extraction pipeline:                               *)
(*   src/shopify_extras.py        the resource loaders                     *)
(*   src/shopify_dlt_pipeline.py  run_loader, load_all_resources,          *)
(*                                incremental_load_with_backloading        *)
(*                                                                         *)
(* One HTTP request together with the handling of its response is one      *)
(* step.  Rows are counted, not stored: a table of the destination holds   *)
(* the number of rows of the last successful submit.  Dates are whole days *)
(* counted from min_start_date (2025-10-01).  A null cursor / URL is 0.    *)
(***************************************************************************)
EXTENDS Integers, Sequences, FiniteSets

\* ------------------------------------------------------------------ bounds
MaxEdges == 2      \* edges on one GraphQL page
MaxCursor == 2     \* distinct non-null endCursor values
MaxCompanies == 1  \* company edges on one page of companies
MaxContacts == 1   \* contact nodes on one page of companies
MaxItems == 2      \* ids on one REST page
MaxMeta == 1       \* metafields returned for one item
MaxReq == 4        \* HTTP requests of one loader invocation
MaxNow == 15       \* latest "now", in days after min_start_date
MaxLocations == 2  \* distinct locations of the shop

\* ------------------------------------------------------- program constants
Week == 7
min_start_date == 0

Loaders ==
  {"pages", "pages_metafields", "collections_metafields", "blogs", "articles",
   "inventory_levels_gql", "products_metafields", "b2b_companies",
   "b2b_company_contacts", "b2b_contact_details"}

Tables ==
  {"pages", "pages_metafields", "collections_metafields", "blogs", "articles",
   "inventory_levels", "products_metafields", "b2b_companies",
   "b2b_company_main_contacts", "b2b_company_contacts", "b2b_contact_details"}

\* names bound in shopify_dlt_pipeline.py by its import of shopify_extras
Imported ==
  {"pages", "pages_metafields", "collections_metafields", "blogs", "articles",
   "inventory_levels_gql", "products_metafields", "b2b_companies"}

\* the run_loader calls of load_all_resources, in order
FullLoadOrder ==
  <<"pages", "pages_metafields", "collections_metafields", "blogs", "articles",
    "inventory_levels_gql", "b2b_companies">>

\* the run_loader calls of one chunk of incremental_load_with_backloading
BackfillOrder ==
  <<"pages", "pages_metafields", "collections_metafields", "blogs", "articles",
    "b2b_companies", "b2b_company_contacts", "b2b_contact_details",
    "inventory_levels_gql">>

\* ------------------------------------------------------------ credentials
\* A URL is a sequence of tokens: "https://", "http://", "/" and host text.
ShopUrls ==
  { <<>>, <<"https://">>, <<"https://", "shop.myshopify.com", "/">> }

AccessTokens == {"", "shpat"}

Replace(s, old) == SelectSeq(s, LAMBDA x : x # old)

RECURSIVE LStrip(_, _)
LStrip(s, ch) ==
  IF s # <<>> /\ Head(s) = ch THEN LStrip(Tail(s), ch) ELSE s

RECURSIVE RStrip(_, _)
RStrip(s, ch) ==
  IF s # <<>> /\ s[Len(s)] = ch THEN RStrip(SubSeq(s, 1, Len(s) - 1), ch) ELSE s

Strip(s, ch) == RStrip(LStrip(s, ch), ch)

\* shop_url.replace("https://", "").replace("http://", "").strip("/")
get_base_shop_domain(url) ==
  Strip(Replace(Replace(url, "https://"), "http://"), "/")

\* ---------------------------------------------------------- HTTP responses
Page(st, er, d, n, mc, ct, h, cur) ==
  [status |-> st, errors |-> er, data |-> d, edges |-> n, nodes |-> n,
   mainContacts |-> mc, contacts |-> ct, hasNextPage |-> h, endCursor |-> cur]

\* the same page with the "node" of one of its edges null
NullNode(p) == [p EXCEPT !.nodes = p.edges - 1]

\* a non-2xx answer (or a transport error): raise_for_status() raises
HttpError == Page(500, FALSE, "absent", 0, 0, 0, FALSE, 0)

\* HTTP 200 whose body has no usable "data" (key absent, or null)
GqlNoData ==
  { Page(200, er, d, 0, 0, 0, FALSE, 0) : er \in BOOLEAN, d \in {"absent", "null"} }

\* HTTP 200 with a connection of n edges (companies carry contacts)
GqlFullPages ==
  { Page(200, er, "present", n, 0, 0, h, cur) :
      er \in BOOLEAN, n \in 0..MaxEdges, h \in BOOLEAN, cur \in 0..MaxCursor }

GqlPages ==
  GqlFullPages \cup { NullNode(p) : p \in { q \in GqlFullPages : q.edges > 0 /\ ~q.errors } }

CompanyPages ==
  UNION { { Page(200, er, "present", n, mc, ct, h, cur) :
              er \in BOOLEAN, h \in BOOLEAN, cur \in 0..MaxCursor,
              mc \in 0..n, ct \in (IF n = 0 THEN {0} ELSE 0..MaxContacts) } :
          n \in 0..MaxCompanies }

Canonical(S) == { r \in S : r.hasNextPage \/ r.endCursor = 0 }

\* a last page of three edges (three companies with one contact each)
LastPageOfThree == Page(200, FALSE, "present", 3, 0, 0, FALSE, 0)
LastPageOfThreeCompanies == Page(200, FALSE, "present", 3, 3, 3, FALSE, 0)

GqlResponses ==
  {HttpError, LastPageOfThree} \cup GqlNoData \cup Canonical(GqlPages)
CompanyResponses ==
  {HttpError, LastPageOfThreeCompanies} \cup GqlNoData \cup Canonical(CompanyPages)

\* under run_loader and the orchestrators every answer is an error or one
\* final page
OrchGqlResponses ==
  {HttpError, Page(200, FALSE, "present", 1, 0, 0, FALSE, 0)}
OrchCompanyResponses ==
  {HttpError, Page(200, FALSE, "present", 1, 1, 1, FALSE, 0)}

\* REST list answer: status, number of ids, Link header (entries <<url, rel>>)
Rest(st, n, link) == [status |-> st, items |-> n, link |-> link]

LinkHeaders(url) ==
  { <<>>, << <<url + 1, "next">> >> } \cup
  (IF url > 1
     THEN { << <<url - 1, "previous">> >>,
            << <<url - 1, "previous">>, <<url + 1, "next">> >> }
     ELSE {})

RestResponses(url) ==
  {Rest(500, 0, <<>>)} \cup
  { Rest(200, n, l) : n \in 0..MaxItems, l \in LinkHeaders(url) }

OrchRestResponses == {Rest(500, 0, <<>>), Rest(200, 1, <<>>)}

\* answer to one per-item request
Item(st, er, found, n) == [status |-> st, errors |-> er, found |-> found, rows |-> n]

ItemResponses ==
  {Item(500, FALSE, FALSE, 0)} \cup
  { Item(200, er, f, n) : er \in BOOLEAN, f \in BOOLEAN, n \in 0..MaxMeta }

OrchItemResponses == {Item(500, FALSE, FALSE, 0), Item(200, FALSE, TRUE, 1)}

\* 'rel="next"' in link_header
HasNext(link) == \E i \in 1..Len(link) : link[i][2] = "next"

\* link_header.split(";")[0].strip("<>") : the URL of the FIRST entry
next_url(link) == IF HasNext(link) THEN link[1][1] ELSE 0


\* ------------------------------------------------ one pass of a loop body
\* What one iteration does with the answer r:
\*   "raise"    an exception leaves the loop
\*   "return"   the generator / function returns at once
\*   "break"    the loop ends after the rows of this page
\*   "continue" the loop goes on with after = r.endCursor
Out(kind, rows, warn) ==
  [kind |-> kind, rows |-> rows, warn |-> warn, sleep |-> "no"]

\* the same pass with a time.sleep before its request or after its handling
Slept(o, when) == [o EXCEPT !.sleep = when]

pages_resource(r) ==
  IF r.status # 200 THEN Out("raise", 0, 0)               \* raise_for_status()
  ELSE IF r.data # "present" THEN Out("raise", 0, 0)      \* resp.json()["data"]["pages"]
  ELSE IF ~r.hasNextPage THEN Out("break", r.edges, 0)
  ELSE Out("continue", r.edges, 0)

blogs_resource(r) ==
  IF r.status # 200 THEN Out("raise", 0, 0)
  ELSE IF r.data # "present" THEN Out("raise", 0, 0)      \* resp.json()["data"]["blogs"]
  ELSE IF ~r.hasNextPage THEN Out("break", r.edges, 0)
  ELSE Out("continue", r.edges, 0)

articles_resource(r) ==
  IF r.status # 200 THEN Out("raise", 0, 0)
  ELSE IF r.data # "present" THEN Out("raise", 0, 0)      \* resp.json()["data"]["articles"]
  ELSE IF ~r.hasNextPage THEN Out("break", r.edges, 0)
  ELSE Out("continue", r.edges, 0)

inventory_levels_resource(r) ==
  IF r.status # 200 THEN Out("raise", 0, 0)
  ELSE IF r.data = "null" THEN Out("raise", 0, 0)         \* None.get("location", {})
  ELSE IF r.data = "absent" THEN Out("break", 0, 1)       \* if not data: warning, break
  ELSE IF r.edges = 0 THEN Out("break", 0, 0)             \* if not edges: break
  ELSE IF ~r.hasNextPage THEN Out("break", r.nodes, 0)    \* if node: yield node
  ELSE Out("continue", r.nodes, 0)

\* the edges of a locations answer: one location (its id and name) per edge,
\* NoLocation where the "node" of the edge is null
Locations == 1..MaxLocations
NoLocation == 0

LocationEdges(r) ==
  IF r.status # 200 \/ r.data # "present" THEN {<<>>}
  ELSE { s \in [1..r.edges -> {NoLocation} \cup Locations] :
           Cardinality({i \in 1..r.edges : s[i] # NoLocation}) = r.nodes }

\* A variant of head_office that takes the last location of the answer.
head_office_last(edges) == edges[Len(edges)]

\* head_office = edges[0]["node"]
head_office(edges) == edges[1]

\* node["location_id"] = head_office_gid, node["location_name"] = head_office_name
\* on every node that o yields
inventory_levels_stamp(l, o) ==
  IF o.kind # "raise" /\ o.rows > 0
    THEN [l EXCEPT !.stamped = @ \cup {l.head_office_gid}]
    ELSE l

\* companies_resource of the first block of load_b2b_companies
companies_resource(r) ==
  IF r.status # 200 THEN Out("raise", 0, 0)
  ELSE IF r.errors THEN Out("return", 0, 0)               \* if "errors" in payload: return
  ELSE IF r.data # "present" \/ r.edges = 0 THEN Out("break", 0, 0)
  ELSE IF ~r.hasNextPage THEN Out("break", r.nodes, 0)    \* if not node: continue
  ELSE Out("continue", r.nodes, 0)

\* fetch_all_companies of the second block of load_b2b_companies
fetch_all_companies(r) ==
  IF r.status # 200 THEN Out("raise", 0, 0)
  ELSE IF r.errors THEN Out("return", 0, 0)               \* return []
  ELSE IF r.data # "present" THEN Out("raise", 0, 0)      \* json_resp["data"]["companies"]
  ELSE IF ~r.hasNextPage THEN Out("break", r.edges, 0)
  ELSE Out("continue", r.edges, 0)

\* contacts_resource of load_b2b_company_contacts: one row per contact node
contacts_resource(r) ==
  IF r.status # 200 THEN Out("raise", 0, 0)
  ELSE IF r.errors THEN Out("return", 0, 0)
  ELSE IF r.data # "present" \/ r.edges = 0 THEN Out("break", 0, 0)
  ELSE IF ~r.hasNextPage THEN Out("break", r.contacts, 0)
  ELSE Out("continue", r.contacts, 0)

\* the collection loop of load_b2b_contact_details: one id per contact node
collect_contact_ids(r) ==
  IF r.status # 200 THEN Out("raise", 0, 0)
  ELSE IF r.errors THEN Out("return", 0, 0)               \* logging.error, return
  ELSE IF r.data # "present" \/ r.edges = 0 THEN Out("break", 0, 0)
  ELSE IF ~r.hasNextPage THEN Out("break", r.contacts, 0)
  ELSE Out("continue", r.contacts, 0)

\* per-item bodies: "raise" ends the generator, "skip" goes to the next item
pages_metafields_resource(r) ==
  IF r.status # 200 THEN Out("raise", 0, 0) ELSE Out("yield", r.rows, 0)

collections_metafields_resource(r) ==
  IF r.status # 200 THEN Out("raise", 0, 0) ELSE Out("yield", r.rows, 0)

\* try block of load_products_metafields: except RequestException: continue
products_metafields_resource(r) ==
  IF r.status # 200 THEN Slept(Out("skip", 0, 1), "after")  \* warning, time.sleep(1)
  ELSE Out("yield", r.rows, 0)

\* the copy inside the except handler of load_products_metafields
products_metafields_resource_2(r) ==
  IF r.status # 200 THEN Out("raise", 0, 0) ELSE Out("yield", r.rows, 0)

\* time.sleep(0.02) precedes the request of every item
contact_details_resource(r) ==
  Slept(IF r.status # 200 THEN Out("raise", 0, 0)         \* r.raise_for_status()
        ELSE IF r.errors THEN Out("skip", 0, 1)           \* warning, continue
        ELSE IF ~r.found THEN Out("skip", 0, 0)           \* if not cc: continue
        ELSE Out("yield", 1, 0),
        "before")


\* -------------------------------------------------------------- flattening
\* A JSON value that may be missing: the key is absent, the value is null, or
\* it is an object.  Leaves of an object that is there always carry a value.
Absent == [is |-> "absent"]
Null == [is |-> "null"]

\* truthiness of   d.get(key)
Truthy(o) == o.is = "obj"

EmailBlocks == {Absent, Null, [is |-> "obj"]}

\* customer of a company contact as the companies query selects it
Customers ==
  {Absent, Null} \cup { [is |-> "obj", defaultEmailAddress |-> e] : e \in EmailBlocks }

Contacts == {Absent, Null} \cup { [is |-> "obj", customer |-> c] : c \in Customers }

\* company.contacts: a connection of at most MaxContacts edges, each with a
\* node that may be null
ContactConnections ==
  {Absent, Null} \cup
  { [is |-> "obj", edges |-> e] :
      e \in UNION { [1..n -> Contacts \ {Absent}] : n \in 0..MaxContacts } }

\* the id of a company node
CompanyIds == 1..(MaxCompanies + 1)

Companies ==
  { [type |-> "company", id |-> i, mainContact |-> mc, contacts |-> cs] :
      i \in CompanyIds, mc \in Contacts, cs \in ContactConnections }

\* customer of data.companyContact as the detail query selects it
DetailCustomers ==
  {Absent, Null} \cup
  { [is |-> "obj", defaultEmailAddress |-> e, amountSpent |-> a] :
      e \in EmailBlocks, a \in EmailBlocks }

CompanyContacts ==
  { [type |-> "companyContact", customer |-> c, company |-> co] :
      c \in DetailCustomers, co \in EmailBlocks }

Nodes == Companies \cup CompanyContacts

NoNode == [type |-> "none"]

\* a row: its keys, and for each key whether its value is None
Row(keys, nones) == [k \in keys |-> IF k \in nones THEN "null" ELSE "value"]

\* row[k] = v
WithKey(row, k, v) == [x \in DOMAIN row |-> IF x = k THEN v ELSE row[x]]

Rows(fn, rs) == [fn |-> fn, kind |-> "rows", rows |-> rs]
Raised(fn) == [fn |-> fn, kind |-> "raise", rows |-> <<>>]
Pending == [fn |-> "none", kind |-> "pending", rows |-> <<>>]

\* the body shared by main_contacts_resource and contacts_resource (second
\* block of load_b2b_companies): customer_id and email are assigned only
\* under   if cust:   and   if email_block:
\* A variant of contact_out that takes company_id from the first company of
\* the buffer instead of the company at hand.
contact_out_first_company(c, company) ==
  WithKey(Row({"id", "company_id"}
                \cup (IF Truthy(c.customer) THEN {"customer_id"} ELSE {})
                \cup (IF Truthy(c.customer) /\ Truthy(c.customer.defaultEmailAddress)
                        THEN {"email"} ELSE {}),
              {}),
          "company_id", 1)

\* out = {"id": mc.get("id"), "company_id": company["id"]}
contact_out(c, company) ==
  WithKey(Row({"id", "company_id"}
                \cup (IF Truthy(c.customer) THEN {"customer_id"} ELSE {})
                \cup (IF Truthy(c.customer) /\ Truthy(c.customer.defaultEmailAddress)
                        THEN {"email"} ELSE {}),
              {}),
          "company_id", company.id)

\* companies_resource of the second block: for c in companies_buffer: yield c
companies_buffer_resource(company) ==
  Rows("companies", << WithKey(Row({"id"}, {}), "id", company.id) >>)

main_contacts_resource(company) ==
  IF ~Truthy(company.mainContact)
    THEN Rows("main_contacts", <<>>)                      \* if not mc: continue
    ELSE Rows("main_contacts", <<contact_out(company.mainContact, company)>>)

\* company.get("contacts", {}).get("edges", []) : the default is used only
\* when the key is absent; None.get raises AttributeError
company_contacts_resource(company) ==
  IF company.contacts.is = "null" THEN Raised("contacts")
  ELSE IF company.contacts.is = "absent" THEN Rows("contacts", <<>>)
  ELSE LET kept == SelectSeq(company.contacts.edges, Truthy)  \* if not node: continue
       IN Rows("contacts", [i \in 1..Len(kept) |-> contact_out(kept[i], company)])

\* the yield of contact_details_resource:  (x.get(k) or {}).get(leaf)
contact_details_row(cc) ==
  LET cust == cc.customer
      noCust == ~Truthy(cust)
  IN Rows("contact_details",
          << Row({"contact_id", "company_id", "customer_id", "first_name",
                  "last_name", "email", "customer_created_at",
                  "amount_spent_amount", "amount_spent_currency"},
                 (IF ~Truthy(cc.company) THEN {"company_id"} ELSE {})
                   \cup (IF noCust
                           THEN {"customer_id", "first_name", "last_name",
                                 "customer_created_at"}
                           ELSE {})
                   \cup (IF noCust \/ ~Truthy(cust.defaultEmailAddress)
                           THEN {"email"} ELSE {})
                   \cup (IF noCust \/ ~Truthy(cust.amountSpent)
                           THEN {"amount_spent_amount", "amount_spent_currency"}
                           ELSE {})) >>)

\* ------------------------------------------------------------------ state
VARIABLES
  mode,          \* which entry point runs: "loader" (a load_* called directly),
                 \* "twice" (the same, called two times), "run_loader" (one
                 \* run_loader call), "full", "backfill", "flatten" (one
                 \* flattening resource over one node)
  target,        \* the loader of a "loader" / "run_loader" run
  shop_url,      \* dlt.config sources.shopify_dlt.shop_url
  access_token,  \* dlt.config sources.shopify_dlt.private_app_password
  max_end_date,  \* pendulum.now() of the backfill
  orch,          \* locals of the orchestrator function
  ld,            \* locals of the running loader
  dest,          \* destination tables
  runs,          \* pipeline.run calls per resource name
  node,          \* the raw node handed to a flattening resource
  out,           \* what that resource did with it
  upstream,      \* "twice": what the shop answers to each request made so far
  snap           \* "twice": which invocation runs, the tables after the first

vars ==
  <<mode, target, shop_url, access_token, max_end_date, orch, ld, dest, runs,
    node, out, upstream, snap>>

replay == <<upstream, snap>>

flat == <<node, out>>

config == <<mode, target, shop_url, access_token, max_end_date>>

Orchestrated == mode \in {"full", "backfill"}

Wrapped == mode \in {"run_loader", "full", "backfill"}

\* An unchanged shop: the same request gets the same answer.  A request is
\* told by the statement that makes it and by its cursor, URL or item.
Key(l) == <<l.pc, l.after, l.url, l.item>>

Answers(S) ==
  IF mode = "twice" /\ Key(ld) \in DOMAIN upstream THEN {upstream[Key(ld)]} ELSE S

NoAnswer == [status |-> 0]

Heard(r) == IF mode = "twice" THEN r ELSE NoAnswer

\* upstream' after a step of the loader
Learn ==
  IF mode = "twice" /\ ld'.reqs = ld.reqs + 1
    THEN [k \in DOMAIN upstream \cup {Key(ld)} |->
            IF k = Key(ld) THEN ld'.last ELSE upstream[k]]
    ELSE upstream

\* when a loader is run twice the shop answers with an error or with a
\* well-formed page of one or two edges
TwiceGqlResponses ==
  {HttpError} \cup
  { p \in Canonical(GqlFullPages) :
      ~p.errors /\ p.edges \in {1, 2} /\ (p.hasNextPage => p.endCursor # 0) }

TwiceCompanyResponses ==
  {HttpError} \cup
  { p \in Canonical(CompanyPages) :
      ~p.errors /\ p.edges = 1 /\ p.mainContacts = 1 /\ p.contacts = 1
        /\ (p.hasNextPage => p.endCursor # 0) }

TwiceRestResponses(url) ==
  { r \in RestResponses(url) :
      r.status # 200 \/ (r.items = 1 /\ r.link \in {<<>>, << <<url + 1, "next">> >>}) }

GqlR ==
  IF Wrapped THEN OrchGqlResponses
  ELSE IF mode = "twice" THEN TwiceGqlResponses ELSE GqlResponses

CompanyR ==
  IF Wrapped THEN OrchCompanyResponses
  ELSE IF mode = "twice" THEN TwiceCompanyResponses ELSE CompanyResponses

RestR(url) ==
  IF Wrapped THEN OrchRestResponses
  ELSE IF mode = "twice" THEN TwiceRestResponses(url) ELSE RestResponses(url)

ItemR == IF Wrapped \/ mode = "twice" THEN OrchItemResponses ELSE ItemResponses

\* if not shop_domain or not access_token
MissingCreds == get_base_shop_domain(shop_url) = <<>> \/ access_token = ""

\* if not shop_url or not access_token   (the second blocks read shop_url raw)
MissingRawCreds == shop_url = <<>> \/ access_token = ""

IdleLoader ==
  [name |-> "none", pc |-> "idle", block |-> 1, after |-> 0, url |-> 0,
   reqs |-> 0, fetched |-> 0, yielded |-> 0, ids |-> 0, item |-> 0, mcs |-> 0, cts |-> 0,
   warnings |-> 0, errors |-> 0, failures |-> 0, sent |-> 0,
   stopSeen |-> FALSE, httpErrSeen |-> FALSE, gqlErrSeen |-> FALSE,
   gapSlept |-> TRUE, sleptAfter |-> FALSE, submits |-> 0, early |-> "none",
   locations |-> <<>>, head_office_gid |-> NoLocation, stamped |-> {},
   scen |-> "none", n1 |-> 0, empties |-> 0, prevEnd |-> 0, last |-> NoAnswer, loadFailed |-> FALSE]

StartLoader(n) == [IdleLoader EXCEPT !.name = n, !.pc = "creds"]

IdleOrch ==
  [pc |-> "idle", k |-> 1, invoked |-> <<>>, log |-> <<>>, results |-> <<>>,
   idx |-> 0, ranges |-> <<>>, current_start_date |-> min_start_date,
   attempted |-> <<>>, failed_chunk |-> 0, failure |-> "none", final_syncs |-> 0,
   err_chunk |-> 0]

StartPc ==
  [loader |-> "direct", run_loader |-> "run_loader", full |-> "core",
   backfill |-> "ranges", flatten |-> "idle", twice |-> "direct"]

Init ==
  /\ mode \in {"loader", "twice", "run_loader", "full", "backfill", "flatten"}
  /\ target \in (IF mode \in {"loader", "twice", "run_loader"} THEN Loaders
                                                              ELSE {"none"})
  /\ shop_url \in ShopUrls
  /\ access_token \in AccessTokens
  /\ max_end_date \in (IF mode = "backfill" THEN (min_start_date - 1)..MaxNow
                                             ELSE {min_start_date})
  /\ orch = [IdleOrch EXCEPT !.pc = StartPc[mode]]
  /\ ld = IF mode \in {"loader", "twice"} THEN StartLoader(target) ELSE IdleLoader
  /\ dest = [t \in Tables |-> [loaded |-> FALSE, rows |-> 0]]
  /\ runs = [t \in Tables |-> 0]
  /\ node \in (IF mode = "flatten" THEN Nodes ELSE {NoNode})
  /\ out = Pending
  /\ upstream = <<>>
  /\ snap = [pass |-> IF mode = "twice" THEN 1 ELSE 0,
             dest |-> [t \in Tables |-> [loaded |-> FALSE, rows |-> 0]],
             loadFailed |-> FALSE]

\* --------------------------------------------------------- loader helpers
\* a well-formed page that announces a next page under a cursor
IsFirstOfTwo(r) ==
  /\ r.status = 200 /\ ~r.errors /\ r.data = "present" /\ r.nodes = r.edges
  /\ r.hasNextPage /\ r.endCursor # 0

\* a well-formed last page of three edges
IsLastOfThree(r) ==
  /\ r.status = 200 /\ ~r.errors /\ r.data = "present" /\ r.nodes = r.edges
  /\ ~r.hasNextPage /\ r.edges = 3

\* which part of that exchange of two pages the paginator has seen
Exchange(l, r) ==
  CASE l.scen = "none" /\ IsFirstOfTwo(r) -> "first"
    [] l.scen = "first" /\ IsLastOfThree(r) -> "second"
    [] l.scen = "second" -> "second"
    [] OTHER -> "off"

\* requests.post / requests.get of the primary pagination answered by a page r
Request(l, r) ==
  [l EXCEPT !.reqs = @ + 1,
            !.last = Heard(r),
            !.prevEnd = IF r.status = 200 THEN r.endCursor ELSE @,
            !.empties = IF r.status = 200 /\ r.data = "present" /\ r.edges = 0
                             /\ r.hasNextPage
                          THEN @ + 1 ELSE 0,
            !.fetched = @ + (IF r.status = 200 THEN r.edges ELSE 0),
            !.scen = Exchange(l, r),
            !.n1 = IF l.scen = "none" /\ IsFirstOfTwo(r) THEN r.edges ELSE @,
            !.httpErrSeen = @ \/ r.status # 200,
            !.gqlErrSeen = @ \/ (r.status = 200 /\ r.errors),
            !.stopSeen = @ \/ (r.status = 200 /\ (r.edges = 0 \/ ~r.hasNextPage))]

\* a REST list request of the primary pagination
RestRequest(l, r) ==
  [l EXCEPT !.reqs = @ + 1, !.last = Heard(r), !.httpErrSeen = @ \/ r.status # 200]

\* any other request (location lookup, one per-item request)
OtherRequest(l, r) == [l EXCEPT !.reqs = @ + 1, !.last = Heard(r)]

Ret(l) == [l EXCEPT !.pc = "ret"]

\* except Exception as e: print / logging.exception; the loader returns
Caught(l) == [l EXCEPT !.pc = "ret", !.failures = @ + 1]

\* the exception leaves the loader
Propagate(l) == [l EXCEPT !.pc = "raised"]

\* A variant of Advance that never moves the cursor.
Advance_same_cursor(l, o, r, onRaise) ==
  CASE o.kind = "raise" -> onRaise
    [] o.kind = "continue" ->
         [l EXCEPT !.yielded = @ + o.rows, !.warnings = @ + o.warn]
    [] OTHER ->
         [l EXCEPT !.yielded = @ + o.rows, !.pc = "load", !.warnings = @ + o.warn,
                   !.errors = @ + (IF o.kind = "return" THEN 1 ELSE 0)]

\* a paginating generator consumed by pipeline.run: rows are buffered until
\* the generator ends; an exception makes pipeline.run raise (onRaise)
Advance(l, o, r, onRaise) ==
  CASE o.kind = "raise" -> onRaise
    [] o.kind = "continue" ->
         [l EXCEPT !.yielded = @ + o.rows, !.after = r.endCursor,
                   !.warnings = @ + o.warn]
    [] OTHER ->                       \* "return" follows a logging.error
         [l EXCEPT !.yielded = @ + o.rows, !.pc = "load", !.warnings = @ + o.warn,
                   !.errors = @ + (IF o.kind = "return" THEN 1 ELSE 0)]

\* entering a generator that loops over the collected ids
EnterItems(l) ==
  [l EXCEPT !.pc = IF l.ids = 0 THEN "load" ELSE "extract", !.item = 0,
            !.yielded = 0, !.sleptAfter = FALSE]

\* one item of such a generator
ItemAdvance(l, o, onRaise) ==
  IF o.kind = "raise" THEN onRaise
  ELSE LET l2 == [l EXCEPT !.yielded = @ + o.rows, !.item = @ + 1,
                           !.warnings = @ + o.warn,
                           !.gapSlept = l.item = 0 \/ l.sleptAfter \/ o.sleep = "before",
                           !.sleptAfter = o.sleep = "after"]
       IN IF l2.item = l2.ids THEN [l2 EXCEPT !.pc = "load"] ELSE l2

\* one pass of   while pages_url: ... pages_url = next_url
\* the ids of the page are kept and the Link header gives the next url
RestCollect(l, r) == [l EXCEPT !.ids = @ + r.items, !.url = next_url(r.link)]

\* done is where the loader goes when the loop ends
RestAdvance(l, r, onRaise, done) ==
  IF r.status # 200 THEN onRaise
  ELSE IF RestCollect(l, r).url = 0 THEN done ELSE RestCollect(l, r)

Go(l) == ld' = l /\ UNCHANGED <<dest, runs>>

\* pipeline.run(<resource t>()) is called: the generator starts
Run(l, t) ==
  /\ ld' = l
  /\ runs' = [runs EXCEPT ![t] = @ + 1]
  /\ UNCHANGED dest

\* A variant of Submit that loads with write_disposition="append".
Submit_append(t, rows, ok, fail, nxt) ==
  \/ /\ dest' = [dest EXCEPT ![t] = [loaded |-> TRUE, rows |-> @.rows + rows]]
     /\ ld' = [ok EXCEPT !.sent = @ + rows, !.submits = @ + 1]
     /\ runs' = IF nxt = "" THEN runs ELSE [runs EXCEPT ![nxt] = @ + 1]
  \/ /\ ld' = [fail EXCEPT !.loadFailed = TRUE]
     /\ UNCHANGED <<dest, runs>>

\* the generator has ended: pipeline.run loads its rows with
\* write_disposition="replace", or the load fails and pipeline.run raises.
\* nxt names the resource of the pipeline.run call that follows, if any.
Submit(t, rows, ok, fail, nxt) ==
  \/ /\ dest' = [dest EXCEPT ![t] = [loaded |-> TRUE, rows |-> rows]]
     /\ ld' = [ok EXCEPT !.sent = @ + rows, !.submits = @ + 1]
     /\ runs' = IF nxt = "" THEN runs ELSE [runs EXCEPT ![nxt] = @ + 1]
  \/ /\ ld' = [fail EXCEPT !.loadFailed = TRUE]
     /\ UNCHANGED <<dest, runs>>


\* ld' and, when the step has started pipeline.run(<resource t>()), runs'
GoMaybeRun(l, t) ==
  /\ ld' = l
  /\ runs' = IF l.pc \in {"extract", "load"} THEN [runs EXCEPT ![t] = @ + 1] ELSE runs
  /\ UNCHANGED dest

\* ---------------------------------------------------------------- loaders
\* The shape shared by load_pages, load_blogs, load_articles and
\* load_b2b_company_contacts: credentials, one paginating generator, submit.
\* warn is 1 where the credential check logs a warning before returning.
GqlLoader(n, t, missing, warn, gen, R) ==
  /\ ld.name = n
  /\ \/ /\ ld.pc = "creds"
        /\ IF missing
             THEN Go([ld EXCEPT !.pc = "ret", !.warnings = @ + warn])
             ELSE Run([ld EXCEPT !.pc = "extract"], t)
     \/ /\ ld.pc = "extract"
        /\ ld.reqs < MaxReq
        /\ \E r \in Answers(R) :
             Go(Advance(Request(ld, r), gen[r], r, Caught(Request(ld, r))))
     \/ /\ ld.pc = "load"
        /\ Submit(t, ld.yielded, Ret(ld), Caught(ld), "")
  /\ UNCHANGED <<config, flat, orch, snap>>

\* the second credential check of load_pages can only repeat the first
load_pages ==
  GqlLoader("pages", "pages", MissingCreds \/ MissingRawCreds, 0,
            [r \in GqlR |-> pages_resource(r)], GqlR)

load_blogs ==
  GqlLoader("blogs", "blogs", MissingCreds, 0, [r \in GqlR |-> blogs_resource(r)], GqlR)

load_articles ==
  GqlLoader("articles", "articles", MissingCreds, 0,
            [r \in GqlR |-> articles_resource(r)], GqlR)

load_b2b_company_contacts ==
  GqlLoader("b2b_company_contacts", "b2b_company_contacts", MissingCreds, 1,
            [r \in CompanyR |-> contacts_resource(r)], CompanyR)

load_inventory_levels_gql ==
  /\ ld.name = "inventory_levels_gql"
  /\ \/ /\ ld.pc = "creds"
        /\ Go(IF MissingCreds THEN [ld EXCEPT !.pc = "ret", !.warnings = @ + 1]
                              ELSE [ld EXCEPT !.pc = "loc"])
     \/ /\ ld.pc = "loc"                       \* the locations(first: 1) lookup
        /\ ld.reqs < MaxReq
        /\ \E r \in Answers(GqlR) : \E edges \in LocationEdges(r) :
             LET l == [OtherRequest(ld, r) EXCEPT !.locations = edges] IN
             IF r.status # 200 THEN Go(Caught(l))
             ELSE IF edges = <<>>                \* if not edges: error, return
                    THEN Go([l EXCEPT !.pc = "ret", !.errors = @ + 1,
                                      !.early = "no_location"])
             ELSE IF head_office(edges) = NoLocation
                    THEN Go(Caught(l))           \* None["id"]: TypeError
                    ELSE Run([l EXCEPT !.pc = "extract",
                                       !.head_office_gid = head_office(edges)],
                             "inventory_levels")
     \/ /\ ld.pc = "extract"
        /\ ld.reqs < MaxReq
        /\ \E r \in Answers(GqlR) :
             Go(Advance(inventory_levels_stamp(Request(ld, r),
                                               inventory_levels_resource(r)),
                        inventory_levels_resource(r), r, Caught(Request(ld, r))))
     \/ /\ ld.pc = "load"
        /\ Submit("inventory_levels", ld.yielded, Ret(ld), Caught(ld), "")
  /\ UNCHANGED <<config, flat, orch, snap>>

load_pages_metafields ==
  /\ ld.name = "pages_metafields"
  /\ \/ /\ ld.pc = "creds"
        /\ Go(IF MissingCreds THEN Ret(ld) ELSE [ld EXCEPT !.pc = "collect", !.url = 1])
     \/ /\ ld.pc = "collect"                   \* while pages_url:
        /\ ld.reqs < MaxReq
        /\ \E r \in Answers(RestR(ld.url)) :
             GoMaybeRun(RestAdvance(RestRequest(ld, r), r, Caught(RestRequest(ld, r)),
                                    EnterItems(RestCollect(RestRequest(ld, r), r))),
                        "pages_metafields")
     \/ /\ ld.pc = "extract"                   \* for pid in page_ids:
        /\ ld.reqs < MaxReq
        /\ \E r \in Answers(ItemR) :
             Go(ItemAdvance(OtherRequest(ld, r), pages_metafields_resource(r),
                            Caught(OtherRequest(ld, r))))
     \/ /\ ld.pc = "load"
        /\ Submit("pages_metafields", ld.yielded, Ret(ld), Caught(ld), "")
  /\ UNCHANGED <<config, flat, orch, snap>>

\* one GET of custom_collections.json, no Link pagination
load_collections_metafields ==
  /\ ld.name = "collections_metafields"
  /\ \/ /\ ld.pc = "creds"
        /\ Go(IF MissingCreds THEN Ret(ld) ELSE [ld EXCEPT !.pc = "collect", !.url = 1])
     \/ /\ ld.pc = "collect"
        /\ ld.reqs < MaxReq
        /\ \E r \in Answers(RestR(ld.url)) :
             LET l == RestRequest(ld, r) IN
             GoMaybeRun(IF r.status # 200 THEN Caught(l)
                        ELSE EnterItems([l EXCEPT !.ids = r.items, !.url = 0]),
                        "collections_metafields")
     \/ /\ ld.pc = "extract"
        /\ ld.reqs < MaxReq
        /\ \E r \in Answers(ItemR) :
             Go(ItemAdvance(OtherRequest(ld, r), collections_metafields_resource(r),
                            Caught(OtherRequest(ld, r))))
     \/ /\ ld.pc = "load"
        /\ Submit("collections_metafields", ld.yielded, Ret(ld), Caught(ld), "")
  /\ UNCHANGED <<config, flat, orch, snap>>

\* except Exception of load_products_metafields: logs, then runs the copy of
\* the loader that follows the logging call inside the handler (block 2)
ProductsHandler(l) ==
  IF MissingCreds THEN [l EXCEPT !.pc = "ret", !.failures = @ + 1]
  ELSE [l EXCEPT !.failures = @ + 1, !.block = 2, !.pc = "collect", !.url = 1,
                 !.ids = 0, !.item = 0, !.yielded = 0]

\* if not product_ids: warning, return   (try block only)
ProductsCollected(l) ==
  IF l.block = 1 /\ l.ids = 0 THEN [l EXCEPT !.pc = "ret", !.warnings = @ + 1]
  ELSE EnterItems(l)

\* where an exception goes: to the handler from the try block, out of the
\* loader from the handler
ProductsRaise(l) == IF l.block = 1 THEN ProductsHandler(l) ELSE Propagate(l)

load_products_metafields ==
  /\ ld.name = "products_metafields"
  /\ \/ /\ ld.pc = "creds"
        /\ Go(IF MissingCreds THEN [ld EXCEPT !.pc = "ret", !.warnings = @ + 1]
                              ELSE [ld EXCEPT !.pc = "collect", !.url = 1])
     \/ /\ ld.pc = "collect"                   \* while products_url:
        /\ ld.reqs < MaxReq
        /\ \E r \in Answers(RestR(ld.url)) :
             GoMaybeRun(RestAdvance(RestRequest(ld, r), r,
                                    ProductsRaise(RestRequest(ld, r)),
                                    ProductsCollected(RestCollect(RestRequest(ld, r), r))),
                        "products_metafields")
     \/ /\ ld.pc = "extract"
        /\ ld.reqs < MaxReq
        /\ \E r \in Answers(ItemR) :
             Go(ItemAdvance(OtherRequest(ld, r),
                            IF ld.block = 1 THEN products_metafields_resource(r)
                                            ELSE products_metafields_resource_2(r),
                            ProductsRaise(OtherRequest(ld, r))))
     \/ /\ ld.pc = "load"
        /\ Submit("products_metafields", ld.yielded, Ret(ld), ProductsRaise(ld), "")
  /\ UNCHANGED <<config, flat, orch, snap>>

\* after the first try/except of load_b2b_companies the function goes on
\* with its second try block
ToBlock2(l) ==
  IF MissingRawCreds THEN [l EXCEPT !.pc = "ret", !.warnings = @ + 1]
  ELSE [l EXCEPT !.block = 2, !.pc = "fetch", !.after = 0, !.yielded = 0,
                 !.fetched = 0, !.empties = 0, !.prevEnd = 0]

load_b2b_companies ==
  /\ ld.name = "b2b_companies"
  /\ \/ /\ ld.pc = "creds"
        /\ IF MissingCreds
             THEN Go([ld EXCEPT !.pc = "ret", !.warnings = @ + 1])
             ELSE Run([ld EXCEPT !.pc = "extract"], "b2b_companies")
     \/ /\ ld.pc = "extract"                   \* first block: companies_resource
        /\ ld.reqs < MaxReq
        /\ \E r \in Answers(CompanyR) :
             LET l == Request(ld, r) IN
             Go(Advance(l, companies_resource(r), r,
                        ToBlock2([l EXCEPT !.failures = @ + 1])))
     \/ /\ ld.pc = "load" /\ ld.block = 1
        /\ Submit("b2b_companies", ld.yielded, ToBlock2(ld),
                  ToBlock2([ld EXCEPT !.failures = @ + 1]), "")
     \/ /\ ld.pc = "fetch"                     \* second block: fetch_all_companies
        /\ ld.reqs < MaxReq
        /\ \E r \in Answers(CompanyR) :
             LET l == Request(ld, r)
                 o == fetch_all_companies(r)
                 more == [l EXCEPT !.ids = @ + o.rows, !.mcs = @ + r.mainContacts,
                                   !.cts = @ + r.contacts]
             IN CASE o.kind = "raise" -> Go(Caught(l))
                  [] o.kind = "return" ->
                       Run([l EXCEPT !.ids = 0, !.mcs = 0, !.cts = 0, !.pc = "load",
                                     !.errors = @ + 1],
                           "b2b_companies")
                  [] o.kind = "continue" -> Go([more EXCEPT !.after = r.endCursor])
                  [] OTHER -> Run([more EXCEPT !.pc = "load"], "b2b_companies")
     \/ /\ ld.pc = "load" /\ ld.block = 2
        /\ Submit("b2b_companies", ld.ids, [ld EXCEPT !.pc = "load_main"], Caught(ld),
                  "b2b_company_main_contacts")
     \/ /\ ld.pc = "load_main"
        /\ Submit("b2b_company_main_contacts", ld.mcs, [ld EXCEPT !.pc = "load_contacts"],
                  Caught(ld), "b2b_company_contacts")
     \/ /\ ld.pc = "load_contacts"
        /\ Submit("b2b_company_contacts", ld.cts, Ret(ld), Caught(ld), "")
  /\ UNCHANGED <<config, flat, orch, snap>>

load_b2b_contact_details ==
  /\ ld.name = "b2b_contact_details"
  /\ \/ /\ ld.pc = "creds"
        /\ Go(IF MissingCreds THEN [ld EXCEPT !.pc = "ret", !.warnings = @ + 1]
                              ELSE [ld EXCEPT !.pc = "collect"])
     \/ /\ ld.pc = "collect"                   \* 1) collect all contact ids
        /\ ld.reqs < MaxReq
        /\ \E r \in Answers(CompanyR) :
             LET l == Request(ld, r)
                 o == collect_contact_ids(r)
                 more == [l EXCEPT !.ids = @ + o.rows]
             IN GoMaybeRun(
                  CASE o.kind = "raise" -> Caught(l)
                    [] o.kind = "return" ->
                         [l EXCEPT !.pc = "ret", !.errors = @ + 1, !.early = "gql_error"]
                    [] o.kind = "continue" -> [more EXCEPT !.after = r.endCursor]
                    [] OTHER -> IF more.ids = 0
                                  THEN Ret([more EXCEPT !.early = "no_contacts"])
                                  ELSE EnterItems(more),
                  "b2b_contact_details")
     \/ /\ ld.pc = "extract"                   \* 2) for item in contact_ids:
        /\ ld.reqs < MaxReq
        /\ \E r \in Answers(ItemR) :
             Go(ItemAdvance(OtherRequest(ld, r), contact_details_resource(r),
                            Caught(OtherRequest(ld, r))))
     \/ /\ ld.pc = "load"
        /\ Submit("b2b_contact_details", ld.yielded, Ret(ld), Caught(ld), "")
  /\ UNCHANGED <<config, flat, orch, snap>>

LoaderStep ==
  \/ load_pages
  \/ load_blogs
  \/ load_articles
  \/ load_b2b_company_contacts
  \/ load_inventory_levels_gql
  \/ load_pages_metafields
  \/ load_collections_metafields
  \/ load_products_metafields
  \/ load_b2b_companies
  \/ load_b2b_contact_details

\* a step of the running loader; the shop's answer to a new request is kept
Loader == LoaderStep /\ upstream' = Learn


\* ----------------------------------------------------------- orchestrator
\* run_loader(name, fn, pipeline) up to the call fn(pipeline)
run_loader_call(name) ==
  /\ ld' = StartLoader(name)
  /\ orch' = [orch EXCEPT !.invoked = Append(@, name),
                          !.log = Append(@, <<name, "start">>)]

\* A variant of AfterLoader in which a loader that failed inside takes its
\* caller down with it.
AfterLoader_abort(o, l) ==
  [o EXCEPT
     !.log = Append(@, <<l.name, IF l.pc = "ret" THEN "complete" ELSE "failed">>),
     !.results = Append(@, <<l.name, l.pc, l.failures>>),
     !.err_chunk = IF @ = 0 /\ (l.failures > 0 \/ l.errors > 0) THEN o.idx ELSE @,
     !.k = @ + 1,
     !.pc = IF l.failures > 0 \/ l.pc = "raised" THEN "raised" ELSE @]

\* A variant of AfterLoader that reports a loader as failed when the loader
\* logged a failure of its own before returning.
AfterLoader_strict(o, l) ==
  [o EXCEPT
     !.log = Append(@, <<l.name, IF l.pc = "ret" /\ l.failures = 0 THEN "complete"
                                                                   ELSE "failed">>),
     !.results = Append(@, <<l.name, l.pc, l.failures>>),
     !.err_chunk = IF @ = 0 /\ (l.failures > 0 \/ l.errors > 0) THEN o.idx ELSE @,
     !.k = @ + 1]

\* run_loader after fn returned (try) or raised (except Exception): one
\* terminal log line, then the caller goes on with its next statement
AfterLoader(o, l) ==
  [o EXCEPT
     !.log = Append(@, <<l.name, IF l.pc = "ret" THEN "complete" ELSE "failed">>),
     !.results = Append(@, <<l.name, l.pc, l.failures>>),
     !.err_chunk = IF @ = 0 /\ (l.failures > 0 \/ l.errors > 0) THEN o.idx ELSE @,
     !.k = @ + 1]

run_loader ==
  /\ orch.pc \in {"loaders", "run_loader"}
  /\ ld.pc \in {"ret", "raised"}
  /\ orch' = AfterLoader(orch, ld)
  /\ ld' = IdleLoader
  /\ UNCHANGED <<config, flat, replay, dest, runs>>

\* a single run_loader call on any loader function
run_loader_once ==
  /\ mode = "run_loader"
  /\ orch.pc = "run_loader"
  /\ ld.pc = "idle"
  /\ IF orch.k = 1 THEN run_loader_call(target)
                   ELSE orch' = [orch EXCEPT !.pc = "done"] /\ UNCHANGED ld
  /\ UNCHANGED <<config, flat, replay, dest, runs>>

\* A variant of OnCoreFailure that logs the failure and goes on with the
\* supplemental loaders.
OnCoreFailure_swallow(o) ==
  [o EXCEPT !.pc = "loaders", !.k = 1, !.failure = "core",
            !.log = Append(@, <<"pipeline", "failed">>)]

\* except Exception: logger.exception("Pipeline failed with error"), raise
OnCoreFailure(o) ==
  [o EXCEPT !.pc = "raised", !.failure = "core",
            !.log = Append(@, <<"pipeline", "failed">>)]

load_all_resources ==
  /\ mode = "full"
  /\ \/ /\ orch.pc = "core"                    \* load_info = pipeline.run(source)
        /\ \/ orch' = [orch EXCEPT !.pc = "loaders", !.k = 1,
                                   !.log = Append(@, <<"core", "complete">>)]
           \/ orch' = OnCoreFailure(orch)
        /\ UNCHANGED ld
     \/ /\ orch.pc = "loaders"
        /\ ld.pc = "idle"
        /\ orch.k <= Len(FullLoadOrder)
        /\ run_loader_call(FullLoadOrder[orch.k])
     \/ /\ orch.pc = "loaders"
        /\ ld.pc = "idle"
        /\ orch.k > Len(FullLoadOrder)        \* "All custom Shopify resources loaded"
        /\ orch' = [orch EXCEPT !.pc = "done",
                                !.log = Append(@, <<"custom_resources", "success">>)]
        /\ UNCHANGED ld
  /\ UNCHANGED <<config, flat, replay, dest, runs>>

Min(a, b) == IF a < b THEN a ELSE b

\* A variant of ChunkEnd that does not clamp the last chunk to now.
ChunkEnd_unclamped(cur, now) == cur + Week

\* end_date = min(current_start_date.add(weeks=1), max_end_date)
ChunkEnd(cur, now) == Min(cur + Week, now)

\* A variant of OnChunkFailure that goes on with the next chunk.
OnChunkFailure_continue(o, why) ==
  [o EXCEPT !.pc = "for", !.idx = @ + 1, !.failed_chunk = o.idx, !.failure = why]

\* except Exception: logger.exception("Failed on chunk"), break
OnChunkFailure(o, why) ==
  [o EXCEPT !.pc = "final", !.failed_chunk = o.idx, !.failure = why]

incremental_load_with_backloading ==
  /\ mode = "backfill"
  /\ \/ /\ orch.pc = "ranges"                  \* while current_start_date < max_end_date
        /\ orch.current_start_date < max_end_date
        /\ LET end_date == ChunkEnd(orch.current_start_date, max_end_date) IN
           orch' = [orch EXCEPT
                      !.ranges = Append(@, <<orch.current_start_date, end_date>>),
                      !.current_start_date = end_date]
        /\ UNCHANGED ld
     \/ /\ orch.pc = "ranges"
        /\ ~(orch.current_start_date < max_end_date)
        /\ orch' = [orch EXCEPT !.pc = "for", !.idx = 1]
        /\ UNCHANGED ld
     \/ /\ orch.pc = "for"                     \* next chunk: pipeline.run(data)
        /\ orch.idx <= Len(orch.ranges)
        /\ LET o == [orch EXCEPT !.attempted = Append(@, orch.idx)] IN
           \/ orch' = [o EXCEPT !.pc = "loaders", !.k = 1, !.invoked = <<>>]
           \/ orch' = OnChunkFailure(o, "core")
        /\ UNCHANGED ld
     \/ /\ orch.pc = "for"                     \* the ranges are exhausted
        /\ orch.idx > Len(orch.ranges)
        /\ orch' = [orch EXCEPT !.pc = "final"]
        /\ UNCHANGED ld
     \/ /\ orch.pc = "loaders"                 \* next run_loader(...) statement
        /\ ld.pc = "idle"
        /\ orch.k <= Len(BackfillOrder)
        /\ BackfillOrder[orch.k] \in Imported
        /\ run_loader_call(BackfillOrder[orch.k])
     \/ /\ orch.pc = "loaders"
        /\ ld.pc = "idle"
        /\ ~(orch.k <= Len(BackfillOrder) /\ BackfillOrder[orch.k] \in Imported)
        /\ orch' = IF orch.k > Len(BackfillOrder)
                     THEN [orch EXCEPT !.pc = "for", !.idx = @ + 1]
                     \* the name is not bound in the module: NameError, caught
                     \* by the except Exception of the chunk
                     ELSE OnChunkFailure(orch, "NameError")
        /\ UNCHANGED ld
     \/ /\ orch.pc = "final"                   \* the final incremental pipeline.run
        /\ \/ orch' = [orch EXCEPT !.pc = "done", !.final_syncs = @ + 1]
           \/ orch' = [orch EXCEPT !.pc = "raised", !.final_syncs = @ + 1]
        /\ UNCHANGED ld
  /\ UNCHANGED <<config, flat, replay, dest, runs>>

\* one flattening resource is run over the node
Flatten ==
  /\ mode = "flatten"
  /\ out = Pending
  /\ \/ /\ node.type = "company"
        /\ \/ out' = companies_buffer_resource(node)
           \/ out' = main_contacts_resource(node)
           \/ out' = company_contacts_resource(node)
     \/ /\ node.type = "companyContact"
        /\ out' = contact_details_row(node)
  /\ UNCHANGED <<config, replay, orch, ld, dest, runs, node>>

\* the loader has returned and is called a second time
load_twice ==
  /\ mode = "twice"
  /\ snap.pass = 1
  /\ ld.pc \in {"ret", "raised"}
  /\ snap' = [pass |-> 2, dest |-> dest, loadFailed |-> ld.loadFailed]
  /\ ld' = StartLoader(target)
  /\ runs' = [t \in Tables |-> 0]
  /\ UNCHANGED <<config, flat, orch, dest, upstream>>

Next ==
  \/ Flatten
  \/ load_twice
  \/ Loader
  \/ run_loader
  \/ run_loader_once
  \/ load_all_resources
  \/ incremental_load_with_backloading

Spec == Init /\ [][Next]_vars


\* sequential execution: the orchestrator function always takes its next step
FairSpec == Spec /\ WF_vars(incremental_load_with_backloading)

\* ================================================================= claims
\* the resources the paginator claims name, by loader
GqlPaginated ==
  {"pages", "blogs", "articles", "inventory_levels_gql", "b2b_companies",
   "b2b_company_contacts"}

\* the destination tables each loader produces
TablesOf ==
  [pages |-> {"pages"}, pages_metafields |-> {"pages_metafields"},
   collections_metafields |-> {"collections_metafields"}, blogs |-> {"blogs"},
   articles |-> {"articles"}, inventory_levels_gql |-> {"inventory_levels"},
   products_metafields |-> {"products_metafields"},
   b2b_companies |-> {"b2b_companies", "b2b_company_main_contacts",
                      "b2b_company_contacts"},
   b2b_company_contacts |-> {"b2b_company_contacts"},
   b2b_contact_details |-> {"b2b_contact_details"}]

\* C1: once a GraphQL paginator has received a page with hasNextPage=false or
\* with no edges, the loader issues no further request for that resource.
C1_NoRequestAfterStop ==
  [][ (ld.name \in GqlPaginated /\ ld.stopSeen /\ ld'.name = ld.name)
        => ld'.reqs = ld.reqs ]_vars

\* C2: an HTTP 200 answer carrying a top-level errors array during the primary
\* pagination makes the resource failed (an error or a failure is logged) and
\* no rows of it are submitted to the destination.
C2_GqlErrorsFailResource ==
  (ld.gqlErrSeen /\ ld.pc = "ret")
    => ((ld.failures >= 1 \/ ld.errors >= 1) /\ ld.sent = 0)

\* C3: no exception ever leaves a resource loader.
C3_NoExceptionPropagates == ld.pc # "raised"

\* C4: pipeline.run is called at most once per resource name, and a loader
\* that loaded a table without a failure called it exactly once for each of
\* its tables.
C4_SubmitOncePerTable ==
  /\ \A t \in Tables : runs[t] <= 1
  /\ (ld.pc = "ret" /\ ld.failures = 0 /\ (\E t \in TablesOf[ld.name] : dest[t].loaded))
       => \A t \in TablesOf[ld.name] : runs[t] = 1

\* C5: in a backfill, once chunk i has failed no chunk j > i is attempted,
\* the loop is left for the final incremental sync, and that sync runs
\* exactly once, after the chunks.
C5_Abort ==
  mode = "backfill" =>
    /\ orch.failed_chunk # 0 =>
         /\ \A i \in 1..Len(orch.attempted) : orch.attempted[i] <= orch.failed_chunk
         /\ orch.pc \in {"final", "done", "raised"}
    /\ orch.final_syncs = (IF orch.pc \in {"done", "raised"} THEN 1 ELSE 0)

C5_AbortThenFinalSync ==
  /\ []C5_Abort
  /\ (mode = "backfill" /\ orch.failed_chunk # 0) ~> (orch.final_syncs = 1)

\* chunk 1 of several failed, nothing else was attempted, the final sync ran
C5_Witness ==
  /\ mode = "backfill"
  /\ Len(orch.ranges) >= 2
  /\ orch.failed_chunk = 1
  /\ orch.attempted = <<1>>
  /\ orch.pc = "done"
  /\ orch.final_syncs = 1

\* C6: in a backfill whose core extraction never fails, every chunk is run in
\* ascending order with the whole supplemental set, and the loop ends without
\* an abort.
C6_AllChunksRun ==
  (mode = "backfill" /\ orch.pc \in {"final", "done", "raised"} /\ orch.failure # "core")
    => /\ orch.failed_chunk = 0
       /\ orch.attempted = [i \in 1..Len(orch.ranges) |-> i]
       /\ (orch.ranges # <<>> => orch.invoked = BackfillOrder)

\* C7: the chunks partition [min_start_date, now): contiguous from
\* min_start_date, none empty or wider than a week, the last ending at now,
\* ceil((now - start) / week) of them; none when start >= now.
C7_Partition ==
  (mode = "backfill" /\ orch.pc # "ranges") =>
    LET R == orch.ranges
        n == Len(R)
        span == max_end_date - min_start_date
    IN IF span <= 0 THEN n = 0
       ELSE /\ n = (span + 6) \div 7
            /\ R[1][1] = min_start_date
            /\ R[n][2] = max_end_date
            /\ \A i \in 1..n :
                 /\ R[i][1] < R[i][2]
                 /\ R[i][2] - R[i][1] <= 7
                 /\ i > 1 => R[i][1] = R[i - 1][2]

\* three chunks, the last one shorter than a week
C7_Witness ==
  /\ mode = "backfill"
  /\ orch.pc # "ranges"
  /\ Len(orch.ranges) = 3
  /\ orch.ranges[3][2] - orch.ranges[3][1] < 7
  /\ orch.ranges[3][2] = max_end_date

\* C8: in a full load the supplemental loaders are invoked one after another
\* in the fixed order, each once, whichever of them fail; only a failure of
\* the core extraction ends the run early.
C8_Expected ==
  <<"pages", "pages_metafields", "collections_metafields", "blogs", "articles",
    "inventory_levels_gql", "b2b_companies">>

C8_FullLoadRunsEveryLoader ==
  mode = "full" =>
    /\ Len(orch.invoked) <= Len(C8_Expected)
    /\ orch.invoked = SubSeq(C8_Expected, 1, Len(orch.invoked))
    /\ orch.pc = "done" => orch.invoked = C8_Expected
    /\ orch.pc = "raised" => (orch.failure = "core" /\ orch.invoked = <<>>)

\* the run completed although the first and the fourth loader failed
C8_Witness ==
  /\ mode = "full"
  /\ orch.pc = "done"
  /\ Len(orch.results) = 7
  /\ orch.results[1][3] > 0
  /\ orch.results[4][3] > 0
  /\ orch.results[7][3] = 0

\* C9: with an empty shop domain or token a loader returns having made no
\* HTTP call and having logged exactly one warning.
C9_MissingCredsOneWarning ==
  (MissingCreds /\ ld.pc = "ret") => (ld.reqs = 0 /\ ld.warnings = 1)

\* C10: after a non-2xx answer in the primary pagination the loader issues no
\* further request and submits no rows, and it returns with the failure logged.
C10_HttpErrorAborts ==
  [][ /\ (ld.httpErrSeen /\ ld'.name = ld.name)
         => (ld'.reqs = ld.reqs /\ ld'.sent = ld.sent)
      /\ (ld'.httpErrSeen /\ ld'.pc = "ret") => ld'.failures >= 1 ]_vars

\* C11: when a paginated extraction has ended normally, the number of rows it
\* yielded is the sum of the edge counts of the pages it fetched.
C11_Extractions == {"pages", "blogs", "articles", "inventory_levels_gql", "b2b_companies"}

C11_RowsEqualEdges ==
  (ld.name \in C11_Extractions /\ ld.pc = "load")
    => (IF ld.block = 1 THEN ld.yielded ELSE ld.ids) = ld.fetched

\* C12: when the first page announces a next page under a valid cursor and
\* carries N edges, and the second page is a last page of 3 edges, the
\* paginator of the resource issues exactly 2 requests and yields N + 3 rows.
\* (The location lookup of load_inventory_levels_gql is not a page request.)
C12_PageRequests ==
  ld.reqs - (IF ld.name = "inventory_levels_gql" THEN 1 ELSE 0)

C12_TwoPages ==
  ld.name \in C11_Extractions =>
    /\ ld.pc \in {"load", "ret"} => ld.scen # "first"
    /\ (ld.pc = "load" /\ ld.block = 1 /\ ld.scen = "second") => ld.yielded = ld.n1 + 3
    /\ (ld.pc = "ret" /\ ld.scen = "second") => C12_PageRequests = 2

\* C13: in a per-item loop a failed item request (non-2xx, transport error,
\* GraphQL errors) skips that item only: the loop moves on to the next item,
\* keeps the rows yielded so far and ends in the submit.
C13_PerItem ==
  {"pages_metafields", "collections_metafields", "products_metafields",
   "b2b_contact_details"}

C13_ItemFailureSkipsItem ==
  [][ (ld.name \in C13_PerItem /\ ld.pc = "extract" /\ ld'.name = ld.name)
        => /\ ld'.item = ld.item + 1
           /\ ld'.yielded >= ld.yielded
           /\ ld'.pc \in {"extract", "load"} ]_vars


\* C14: flattening a node whose optional nested objects are absent or null
\* never raises, and every row it produces has all the columns of its table,
\* those of a missing object with the value null.
C14_Columns ==
  [companies |-> {"id"},
   main_contacts |-> {"id", "company_id", "customer_id", "email"},
   contacts |-> {"id", "company_id", "customer_id", "email"},
   contact_details |-> {"contact_id", "company_id", "customer_id", "first_name",
                        "last_name", "email", "customer_created_at",
                        "amount_spent_amount", "amount_spent_currency"}]

C14_NullColumns ==
  (mode = "flatten" /\ out # Pending) =>
    /\ out.kind # "raise"
    /\ \A i \in 1..Len(out.rows) :
         /\ DOMAIN out.rows[i] = C14_Columns[out.fn]
         /\ (out.fn = "contact_details" /\ ~Truthy(node.customer))
              => \A k \in {"customer_id", "email", "amount_spent_amount"} :
                   out.rows[i][k] = "null"


\* C15: when a loader is run twice against an unchanged upstream, every table
\* holds after the second run what it held after the first (the destination
\* having accepted the loads of both runs).
C15_Idempotent ==
  (/\ mode = "twice" /\ snap.pass = 2 /\ ld.pc \in {"ret", "raised"}
   /\ ~snap.loadFailed /\ ~ld.loadFailed)
    => dest = snap.dest

\* two pages were loaded twice over
C15_Witness ==
  /\ mode = "twice" /\ snap.pass = 2 /\ ld.pc = "ret"
  /\ ~snap.loadFailed /\ ~ld.loadFailed
  /\ target = "pages" /\ ld.reqs = 2 /\ ld.sent = 3
  /\ snap.dest["pages"] = [loaded |-> TRUE, rows |-> 3]
  /\ dest = snap.dest


C17_FollowsNextLink ==
  [][ (/\ ld.name \in {"pages_metafields", "products_metafields"}
       /\ ld.pc = "collect" /\ ld'.pc = "collect"
       /\ ld'.name = ld.name /\ ld'.block = ld.block)
        => ld'.url = ld.url + 1 ]_vars


\* C18: a paginator ends against an endpoint that keeps answering with an
\* empty edge list and hasNextPage=true: it never asks for a further page
\* after such an answer, so it never receives two of them in a row.
C18_StopsOnEmptyPages ==
  ld.name \in GqlPaginated => ld.empties <= 1


\* C19: every load of a supplemental resource replaces the table: after it
\* the table holds exactly the rows of that load, whatever it held before.
C19_ReplaceOnSubmit ==
  [][ \A t \in Tables :
        dest'[t] # dest[t]
          => (dest'[t].loaded /\ dest'[t].rows = ld'.sent - ld.sent) ]_vars

\* b2b_companies held two rows after the first load of the invocation and
\* holds the single row of the second load
C19_Witness ==
  /\ mode = "loader" /\ target = "b2b_companies"
  /\ ld.pc = "ret" /\ ld.failures = 0
  /\ runs["b2b_companies"] = 2
  /\ ld.sent = 5
  /\ dest["b2b_companies"] = [loaded |-> TRUE, rows |-> 1]


\* C20: the request a pagination loop is about to make carries after = null
\* when it is the first of the loop, and otherwise the endCursor of the
\* response just received; a loader that starts holds no cursor.
C20_Paging ==
  \/ ld.name \in GqlPaginated /\ ld.pc \in {"extract", "fetch"}
  \/ ld.name = "b2b_contact_details" /\ ld.pc = "collect"

C20_CursorThreading ==
  /\ C20_Paging => ld.after = ld.prevEnd
  /\ ld.pc = "creds" => (ld.after = 0 /\ ld.reqs = 0)

\* the third request of load_pages carries the cursor of the second page
C20_Witness ==
  /\ ld.name = "pages" /\ ld.pc = "extract"
  /\ ld.reqs = 2 /\ ld.after = 2 /\ ld.prevEnd = 2 /\ ld.yielded = 3


\* C21: a company node gives exactly one b2b_companies row, one main contact
\* row when it has a mainContact and none otherwise, and one contact row per
\* contact edge whose node is not null; each main contact and contact row
\* carries the id of the company in company_id.
C21_ContactNodes ==
  IF Truthy(node.contacts)
    THEN Cardinality({ i \in 1..Len(node.contacts.edges) : Truthy(node.contacts.edges[i]) })
    ELSE 0

C22_SleepBetweenItems ==
  ld.name \in C13_PerItem => ld.gapSlept


\* C23: in a full load a supplemental loader is started only after the core
\* pipeline.run has completed; when the core run raises, no supplemental
\* loader is invoked, no supplemental table is submitted to, and the run ends
\* raised; and the run ends raised for no other reason.
C23_CoreBeforeLoaders ==
  mode = "full" =>
    /\ (orch.invoked # <<>> \/ ld.pc # "idle")
         => (orch.log # <<>> /\ orch.log[1] = <<"core", "complete">>
             /\ orch.failure = "none")
    /\ orch.failure = "core"
         => /\ orch.pc = "raised"
            /\ orch.invoked = <<>>
            /\ ld = IdleLoader
            /\ \A t \in Tables : runs[t] = 0 /\ ~dest[t].loaded
            /\ orch.log = << <<"pipeline", "failed">> >>
    /\ orch.pc = "raised" => orch.failure = "core"

\* the core run raised and load_all_resources re-raised
C23_Witness ==
  /\ mode = "full"
  /\ orch.pc = "raised"
  /\ orch.failure = "core"
  /\ orch.log = << <<"pipeline", "failed">> >>


\* C24: a loader that met missing credentials, no location
\* (load_inventory_levels_gql), no contacts or a GraphQL error while
\* collecting ids (load_b2b_contact_details) or a failed request while
\* collecting ids (the metafields loaders) submits nothing, in that step and
\* in every later one, and leaves every destination table as it was; and
\* whenever a table changes, it is a table of the running loader.
C24_Metafields == {"pages_metafields", "collections_metafields", "products_metafields"}

C24_StoppedEarly(l) ==
  \/ l.name \in Loaders /\ MissingCreds
  \/ l.early # "none"
  \/ l.name \in C24_Metafields /\ l.httpErrSeen

C24_EarlyStopLeavesTables ==
  [][ /\ (C24_StoppedEarly(ld') /\ ld'.name = ld.name)
         => (ld'.submits = 0 /\ dest' = dest)
      /\ \A t \in Tables :
           dest'[t] # dest[t] => (ld.name \in Loaders /\ t \in TablesOf[ld.name]) ]_vars


\* C25: run_loader never raises: it logs a start line, then one terminal
\* line, complete when the loader function returned (also when the loader
\* had caught and logged a failure of its own) and failed when it raised, and
\* returns; a full load whose core run succeeded therefore logs every loader
\* as complete and ends with the line that all custom resources were loaded.
C25_Terminal(i) ==
  <<orch.results[i][1], IF orch.results[i][2] = "ret" THEN "complete" ELSE "failed">>

C25_RunLoaderReports ==
  /\ mode = "run_loader" =>
       /\ orch.pc # "raised"
       /\ Len(orch.log) <= 2
       /\ Len(orch.log) >= 1 => orch.log[1] = <<target, "start">>
       /\ Len(orch.log) = 2 <=> Len(orch.results) = 1
       /\ Len(orch.log) = 2 => orch.log[2] = C25_Terminal(1)
       /\ orch.pc = "done" => Len(orch.log) = 2
  /\ mode = "full" =>
       /\ \A i \in 1..Len(orch.results) :
            /\ orch.log[2 * i] = <<FullLoadOrder[i], "start">>
            /\ orch.log[2 * i + 1] = <<FullLoadOrder[i], "complete">>
       /\ orch.pc = "done" =>
            /\ Len(orch.log) = 2 * Len(FullLoadOrder) + 2
            /\ orch.log[Len(orch.log)] = <<"custom_resources", "success">>

\* run_loader caught the exception of a loader, logged it as failed and
\* returned
C25_Witness ==
  /\ mode = "run_loader"
  /\ orch.pc = "done"
  /\ orch.results[1][2] = "raised"
  /\ orch.log = << <<target, "start">>, <<target, "failed">> >>


\* C26: load_inventory_levels_gql requests inventory levels only after a
\* locations lookup that was answered with at least one location; a lookup
\* answered with no location is the only request of the loader, which then
\* submits nothing; and every inventory row carries the id and name of the
\* first location of the lookup's answer.
C26_LocationFirst ==
  ld.name = "inventory_levels_gql" =>
    /\ (ld.reqs >= 2 \/ ld.pc \in {"extract", "load"})
         => (ld.locations # <<>> /\ ld.locations[1] \in Locations)
    /\ ld.early = "no_location"
         => (ld.locations = <<>> /\ ld.reqs = 1 /\ ld.submits = 0 /\ ld.pc = "ret")
    /\ ld.stamped # {} => ld.stamped = {ld.locations[1]}
    /\ ld.yielded > 0 => ld.stamped # {}

\* rows were loaded after a lookup answered with the locations 2 and 1
C26_Witness ==
  /\ ld.name = "inventory_levels_gql"
  /\ ld.locations = <<2, 1>>
  /\ ld.stamped = {2}
  /\ ld.pc = "ret"
  /\ ld.sent > 0

=============================================================================
